---- MODULE Spec2Model ----
(***************************************************************************)
(* A model of plugins/gaming.py: the dice, choose and coin commands.       *)
(*                                                                         *)
(* Text is a sequence of one-character strings.  The three compiled        *)
(* regular expressions are operators over such sequences, the library      *)
(* random source is a small deterministic generator whose state is the     *)
(* variable rng, and Python floats are a scaled-down range: every number   *)
(* of magnitude above FloatMax behaves as a number above                   *)
(* sys.float_info.max does (an int does not convert, a product is inf).    *)
(***************************************************************************)
EXTENDS Integers, Sequences

\* ------------------------------------------------------------------ bounds

\* Stand-in for sys.float_info.max (about 1.8e308).
FloatMax == 5000

\* Modulus of the stand-in for the library generator behind `random`.
RngMod == 11

\* Largest |z| of the standard normal sample that normalvariate scales.
ZMax == 2

\* Largest number of pieces a choose text is put together from.
MaxPieces == 3

\* --------------------------------------------------------------- constants

FUDGE_MEAN == 0

\* FUDGE_VAR = 0.6667, in units of 1/10000.
FUDGE_VAR == 6667

ROLL_LIMIT == 100

\* ------------------------------------------------------------------- text

Digits == {"0", "1", "2", "3", "4", "5", "6", "7", "8", "9"}

DigitVal(c) ==
    CASE c = "0" -> 0 [] c = "1" -> 1 [] c = "2" -> 2 [] c = "3" -> 3
      [] c = "4" -> 4 [] c = "5" -> 5 [] c = "6" -> 6 [] c = "7" -> 7
      [] c = "8" -> 8 [] c = "9" -> 9

DigitChar(n) ==
    CASE n = 0 -> "0" [] n = 1 -> "1" [] n = 2 -> "2" [] n = 3 -> "3"
      [] n = 4 -> "4" [] n = 5 -> "5" [] n = 6 -> "6" [] n = 7 -> "7"
      [] n = 8 -> "8" [] n = 9 -> "9"

\* The characters \s matches, among those the inputs are made of.
IsSpace(c) == c \in {" ", "\t"}

IsSign(c) == c \in {"+", "-"}

\* re.I: d and D, F and f
IsD(c) == c \in {"d", "D"}

IsF(c) == c \in {"F", "f"}

Drop(s, n) == SubSeq(s, n + 1, Len(s))

Take(s, n) == SubSeq(s, 1, n)

\* whitespace_re.sub('', s)
StripWs(s) == SelectSeq(s, LAMBDA c : ~IsSpace(c))

RECURSIVE LStrip(_)
LStrip(s) == IF s # <<>> /\ IsSpace(Head(s)) THEN LStrip(Tail(s)) ELSE s

RECURSIVE RStrip(_)
RStrip(s) ==
    IF s # <<>> /\ IsSpace(s[Len(s)]) THEN RStrip(Take(s, Len(s) - 1)) ELSE s

\* str.strip()
Strip(s) == RStrip(LStrip(s))

\* Length of the longest run of digits s starts with.
RECURSIVE DigitRun(_)
DigitRun(s) ==
    IF s # <<>> /\ Head(s) \in Digits THEN 1 + DigitRun(Tail(s)) ELSE 0

\* Length of the longest run of [\d+-] s starts with.
RECURSIVE SignDigitRun(_)
SignDigitRun(s) ==
    IF s # <<>> /\ (Head(s) \in Digits \/ IsSign(Head(s)))
    THEN 1 + SignDigitRun(Tail(s))
    ELSE 0

\* `needle in hay` for strings
IsSubstring(needle, hay) ==
    \E i \in 0 .. (Len(hay) - Len(needle)) :
        SubSeq(hay, i + 1, i + Len(needle)) = needle

\* Value of a run of decimal digits.
RECURSIVE DigitsVal(_, _)
DigitsVal(s, acc) ==
    IF s = <<>> THEN acc ELSE DigitsVal(Tail(s), 10 * acc + DigitVal(Head(s)))

\* Whether int(s) accepts s: surrounding whitespace, one optional sign, digits.
IsIntLiteral(s) ==
    LET t == Strip(s)
        u == IF t # <<>> /\ IsSign(Head(t)) THEN Tail(t) ELSE t
    IN  u # <<>> /\ DigitRun(u) = Len(u)

\* int(s), for an s that int accepts
ParseInt(s) ==
    LET t == Strip(s)
    IN  IF t # <<>> /\ Head(t) = "-" THEN 0 - DigitsVal(Tail(t), 0)
        ELSE IF t # <<>> /\ Head(t) = "+" THEN DigitsVal(Tail(t), 0)
        ELSE DigitsVal(t, 0)

RECURSIVE NatToStr(_)
NatToStr(n) ==
    IF n < 10 THEN <<DigitChar(n)>>
    ELSE Append(NatToStr(n \div 10), DigitChar(n % 10))

\* str(n)
IntToStr(n) == IF n < 0 THEN <<"-">> \o NatToStr(0 - n) ELSE NatToStr(n)

\* sep.join(parts[lo .. hi]), by halves to keep the recursion shallow
RECURSIVE JoinRange(_, _, _, _)
JoinRange(parts, sep, lo, hi) ==
    IF lo > hi THEN <<>>
    ELSE IF lo = hi THEN parts[lo]
    ELSE LET mid == (lo + hi) \div 2
         IN  JoinRange(parts, sep, lo, mid) \o sep
             \o JoinRange(parts, sep, mid + 1, hi)

\* sep.join(parts)
Join(parts, sep) == JoinRange(parts, sep, 1, Len(parts))

\* ---------------------------------------------------------------- regexes

\* The part of valid_diceroll before the label: a signed sum of atoms, each
\* \d+ or \d*d(\d+|F).  st is the automaton's state: "start", "sign"
\* (an atom must begin), "num" (in \d+ or the count), "d" (die letter
\* read), "sides" (in the sides' digits), "F" (fudge marker read).
RECURSIVE SpecAccepts(_, _)
SpecAccepts(s, st) ==
    IF s = <<>> THEN st \in {"num", "sides", "F"}
    ELSE LET c == Head(s)
             nxt == CASE st = "start" /\ IsSign(c) -> "sign"
                      [] st \in {"start", "sign", "num"} /\ c \in Digits -> "num"
                      [] st \in {"start", "sign", "num"} /\ IsD(c) -> "d"
                      [] st = "d" /\ c \in Digits -> "sides"
                      [] st = "d" /\ IsF(c) -> "F"
                      [] st = "sides" /\ c \in Digits -> "sides"
                      [] st \in {"num", "sides", "F"} /\ IsSign(c) -> "sign"
                      [] OTHER -> "fail"
         IN  nxt # "fail" /\ SpecAccepts(Tail(s), nxt)

\* Index of the first " " of s, Len(s) + 1 when there is none.
RECURSIVE FirstSpace(_, _)
FirstSpace(s, i) ==
    IF i > Len(s) \/ s[i] = " " THEN i ELSE FirstSpace(s, i + 1)

\* valid_diceroll.match(s): ok, and the two groups.  Group 1 holds no space
\* and group 2 begins with one, so group 1 is what precedes the first space;
\* group 2 is " .+", at least two characters, or takes no part (<<>>).
valid_diceroll(s) ==
    LET i == FirstSpace(s, 1)
        head == Take(s, i - 1)
        rest == Drop(s, i - 1)
    IN  [ok   |-> SpecAccepts(head, "start") /\ Len(rest) # 1
                  /\ \A k \in 1 .. Len(rest) : rest[k] # "\n",
         text |-> head,
         desc |-> rest]

\* Length of the match of sign_re, [+-]?(?:\d*d)?(?:\d+|F), at the start of
\* s; 0 when there is none (a match is never empty).
SignMatchLen(s) ==
    LET sg == IF s # <<>> /\ IsSign(Head(s)) THEN 1 ELSE 0
        a == Drop(s, sg)
        n == DigitRun(a)
        b == Drop(a, n)
        \* (?:\d*d) is taken when a d follows the digits ...
        hasD == b # <<>> /\ IsD(Head(b))
        c == Drop(b, 1)
        m == DigitRun(c)
    IN  IF hasD /\ m > 0 THEN sg + n + 1 + m
        ELSE IF hasD /\ c # <<>> /\ IsF(Head(c)) THEN sg + n + 2
        \* ... and given up when neither \d+ nor F follows it
        ELSE IF n > 0 THEN sg + n
        ELSE IF a # <<>> /\ IsF(Head(a)) THEN sg + 1
        ELSE 0

\* sign_re.findall(s)
RECURSIVE sign_findall(_)
sign_findall(s) ==
    IF s = <<>> THEN <<>>
    ELSE LET k == SignMatchLen(s)
         IN  IF k = 0 THEN sign_findall(Tail(s))
             ELSE <<Take(s, k)>> \o sign_findall(Drop(s, k))

\* split_re.match(roll).groups(): ([\d+-]*)d?(F|\d*)
split_groups(roll) ==
    LET n == SignDigitRun(roll)
        a == Drop(roll, n)
        b == IF a # <<>> /\ IsD(Head(a)) THEN Tail(a) ELSE a
    IN  [count |-> Take(roll, n),
         side  |-> IF b # <<>> /\ IsF(Head(b)) THEN <<Head(b)>>
                   ELSE Take(b, DigitRun(b))]

\* side.upper()
Upper(s) == [i \in 1 .. Len(s) |->
                CASE s[i] = "f" -> "F" [] s[i] = "d" -> "D" [] OTHER -> s[i]]

\* ------------------------------------------------------------ random source

\* One step of the generator: every draw advances the state once.
RandNext(r) == (2 * r) % RngMod

\* random.randint(lo, hi), for lo <= hi
randint(lo, hi, r) == lo + (r % (hi - lo + 1))

\* random.choice(seq); IndexError on an empty sequence
choice(seq, r) == seq[1 + (r % Len(seq))]

\* The standard normal sample z of normalvariate (mu + z * sigma), kept to
\* the whole numbers -ZMax .. ZMax.
NormalZ(r) == (r % (2 * ZMax + 1)) - ZMax

\* random.uniform(0.45, 0.55), in hundredths
UniformPct(r) == 45 + (r % 11)

\* ------------------------------------------------------------------ floats

Min(a, b) == IF a <= b THEN a ELSE b

Max(a, b) == IF a >= b THEN a ELSE b

\* round(n / d) for d > 0: to the nearest whole number, a tie to the even one.
RoundDiv(n, d) ==
    LET q == n \div d
        r == n % d
    IN  IF 2 * r < d THEN q
        ELSE IF 2 * r > d THEN q + 1
        ELSE IF q % 2 = 0 THEN q ELSE q + 1

\* The largest r in lo .. hi with r * r <= x.
RECURSIVE SqrtSearch(_, _, _)
SqrtSearch(x, lo, hi) ==
    IF lo >= hi THEN lo
    ELSE LET mid == (lo + hi + 1) \div 2
         IN  IF mid * mid <= x THEN SqrtSearch(x, mid, hi)
             ELSE SqrtSearch(x, lo, mid - 1)

\* The whole number nearest to the square root of x >= 0.
NearestSqrt(x) ==
    LET r == SqrtSearch(x, 0, Min(x, 46340))
    IN  IF x - r * r > r THEN r + 1 ELSE r

\* A float is [k, v]: k is "fin" (v is the value in the unit stated where it
\* is made), "inf", "ninf", "nan", or "complex" (what a negative number's
\* ** 0.5 is).  An operator that raises gives [k |-> the exception's name].
Fin(v) == [k |-> "fin", v |-> v]

Special(k) == [k |-> k, v |-> 0]

IsExc(x) == x.k \in {"OverflowError", "TypeError", "ValueError", "IndexError"}

\* 0.5 * (sides + 1) * roll_cnt, in hundredths.  Each int is converted to a
\* float, which raises when it is out of range; the product of two floats
\* that is out of range is inf.
find_midpoint(sides, roll_cnt) ==
    IF sides + 1 > FloatMax \/ roll_cnt > FloatMax THEN Special("OverflowError")
    ELSE IF sides + 1 > (2 * FloatMax) \div roll_cnt THEN Special("inf")
    ELSE Fin(50 * (sides + 1) * roll_cnt)

\* round((sides ** 2 - 1) / 12, 4), in units of 1/10000.  int / int raises
\* when the quotient is out of the float range.
find_variance(sides) ==
    IF sides > FloatMax \/ (sides * sides - 1) \div 12 > FloatMax
    THEN Special("OverflowError")
    ELSE Fin(RoundDiv((sides * sides - 1) * 10000, 12))

\* round((variance * roll_cnt) ** 0.5, 4), for a finite variance in units of
\* 1/10000 and roll_cnt >= 1.  The result is in hundredths: the square root
\* of a number of 1/10000s is a number of 1/100s, rounded here to two
\* decimals where the code keeps four.
find_adjusted_variance(variance, roll_cnt) ==
    IF roll_cnt > FloatMax THEN Special("OverflowError")
    ELSE IF variance.v < 0 THEN Special("TypeError")
    ELSE IF variance.v > (FloatMax * 10000) \div roll_cnt THEN Special("inf")
    ELSE Fin(NearestSqrt(variance.v * roll_cnt))

\* mu + z * sigma of normalvariate, mu and sigma in hundredths, mu >= 0,
\* sigma >= 0.  A finite sigma is at most the square root of the float
\* range, so adding it to a finite mu stays finite.
normalvariate(mu, sigma, z) ==
    LET zs == IF sigma.k = "fin" THEN Fin(z * sigma.v)
              ELSE IF z > 0 THEN Special("inf")
              ELSE IF z < 0 THEN Special("ninf")
              ELSE Special("nan")
    IN  CASE mu.k = "fin" /\ zs.k = "fin" -> Fin(mu.v + zs.v)
          [] mu.k = "fin" /\ zs.k # "fin" -> zs
          [] mu.k = "inf" /\ zs.k \in {"fin", "inf"} -> Special("inf")
          [] OTHER -> Special("nan")

\* round(x) of a float in hundredths: an int, or the exception raised.
round_float(x) ==
    CASE x.k = "fin" -> Fin(RoundDiv(x.v, 100))
      [] x.k \in {"inf", "ninf"} -> Special("OverflowError")
      [] OTHER -> Special("ValueError")

\* ------------------------------------------------------------------- rolls

\* A roll evaluator gives [exc, vals, rng]: the exception raised ("" for
\* none), the list returned, and the generator's state afterwards.
Rolled(vals, r) == [exc |-> "", vals |-> vals, rng |-> r]

Raised(e, r) == [exc |-> e, vals |-> <<>>, rng |-> r]

approximate_rolls(roll_cnt, sides, fudge, r) ==
    LET mid == IF fudge THEN Fin(FUDGE_MEAN) ELSE find_midpoint(sides, roll_cnt)
        var == IF fudge THEN Fin(FUDGE_VAR)
               ELSE IF IsExc(mid) THEN mid
               ELSE find_variance(sides)
        adj_var == IF IsExc(var) THEN var
                   ELSE find_adjusted_variance(var, roll_cnt)
        val == IF IsExc(adj_var) THEN adj_var
               ELSE round_float(normalvariate(mid, adj_var, NormalZ(r)))
    IN  IF IsExc(val) THEN Raised(val.k, IF IsExc(adj_var) THEN r ELSE RandNext(r))
        ELSE Rolled(<<val.v>>, RandNext(r))

\* 2 ** k % RngMod, by squaring to keep the recursion shallow
RECURSIVE Pow2Mod(_)
Pow2Mod(k) ==
    IF k <= 0 THEN 1 % RngMod
    ELSE LET h == Pow2Mod(k \div 2)
         IN  (h * h * (IF k % 2 = 1 THEN 2 ELSE 1)) % RngMod

\* The state of the generator k draws after state r: RandNext applied k
\* times, which multiplies by 2 ** k.
RandSkip(r, k) == IF k <= 0 THEN r ELSE (r * Pow2Mod(k)) % RngMod

\* [random.randint(lower, upper) for _ in range(n)]: the i-th draw is made
\* in the state i - 1 draws after r.
RandInts(n, lower, upper, r) ==
    Rolled([i \in 1 .. n |-> randint(lower, upper, RandSkip(r, i - 1))],
           RandSkip(r, n))

simulate_rolls(roll_cnt, sides, fudge, r) ==
    LET lower == IF fudge THEN -1 ELSE Min(sides, 1)
        upper == IF fudge THEN 1 ELSE Max(sides, 1)
    IN  RandInts(roll_cnt, lower, upper, r)

\* sides is an int, or -1 for the fudge marker "F" the caller passes.
FudgeSides == -1

n_rolls(roll_cnt, sides, r) ==
    LET fudge == sides = FudgeSides
    IN  IF roll_cnt < ROLL_LIMIT THEN simulate_rolls(roll_cnt, sides, fudge, r)
        ELSE approximate_rolls(roll_cnt, sides, fudge, r)

\* sum(s[lo .. hi]), by halves to keep the recursion shallow
RECURSIVE SumRange(_, _, _)
SumRange(s, lo, hi) ==
    IF lo > hi THEN 0
    ELSE IF lo = hi THEN s[lo]
    ELSE LET mid == (lo + hi) \div 2
         IN  SumRange(s, lo, mid) + SumRange(s, mid + 1, hi)

\* sum(s)
Sum(s) == SumRange(s, 1, Len(s))

\* ------------------------------------------------------------------- state

VARIABLES
    pc,       \* "idle", "loop" (dice is in its for loop), "done"
    rng,      \* the state of the random source
    cmd,      \* the command running: "dice", "dice_match", "choose", "coin"
    arg,      \* the text the command was called with
    text,     \* dice: the expression, group 1 of the match
    desc,     \* dice: the label, group 2 of the match (<<>> for None)
    groups,   \* dice: the terms still to evaluate
    total,    \* dice: the running total
    rolls,    \* dice: the display tokens so far
    ret,      \* <<>> when the command returned None, <<s>> when it returned s
    exc,      \* the exception that left the command, "" for none
    notices,  \* the calls of notice / event.notice_doc
    acts,     \* the calls of action
    terms     \* history: one record per term dice has evaluated

vars == <<pc, rng, cmd, arg, text, desc, groups, total, rolls, ret, exc,
          notices, acts, terms>>

\* "\x033+\x0F", "\x034-\x0F" and "0": ^C and ^O stand for \x03 and \x0F
FUDGE_PLUS == <<"^C", "3", "+", "^O">>

FUDGE_MINUS == <<"^C", "4", "-", "^O">>

FUDGE_ZERO == <<"0">>

\* The joke string, kept as one piece of text.
OVERFLOW_JOKE == <<"Thanks for overflowing a float, jerk >:[">>

\* ------------------------------------------------------------------ inputs

SignTexts == {<<>>, <<"+">>, <<"-">>}

CountTexts ==
    {<<>>, <<"0">>, <<"2">>, <<"9", "9">>, <<"1", "0", "0">>,
     <<"9", "9", "9", "9">>}

SideTexts ==
    {<<"0">>, <<"1">>, <<"6">>, <<"1", "0", "0">>, <<"3", "0", "0">>,
     <<"F">>, <<"f">>}

FirstTerms ==
    {sg \o c \o <<l>> \o sd :
        sg \in SignTexts, c \in CountTexts, l \in {"d", "D"}, sd \in SideTexts}
    \cup {sg \o <<"5">> : sg \in SignTexts}

\* The first terms that are followed by more text.
ShortTerms ==
    {sg \o c \o <<l>> \o sd :
        sg \in SignTexts, c \in {<<>>, <<"0">>, <<"2">>, <<"1", "0", "0">>},
        l \in {"d", "D"}, sd \in {<<"6">>, <<"F">>}}
    \cup {sg \o <<"5">> : sg \in SignTexts}

\* What follows a first term: a second term, a term set off by blanks, a
\* label, a label that reads as dice notation, or no notation at all.
DiceTails ==
    {<<"+", "5">>, <<"-", "d", "6">>, <<"+", "d", "6">>,
     <<"-", "2", "d", "F">>, <<" ", "+", " ", "D", "6">>,
     <<" ", "f", "i", "r", "e">>, <<" ", "2", "d", "6">>, <<"x">>}

DiceTexts == FirstTerms \cup {a \o t : a \in ShortTerms, t \in DiceTails}

\* The texts a match object is made from.
MatchTexts == ShortTerms \cup {a \o t : a \in ShortTerms, t \in DiceTails}

RECURSIVE Concat(_)
Concat(ss) == IF ss = <<>> THEN <<>> ELSE Head(ss) \o Concat(Tail(ss))

ChoosePieces == {<<"a">>, <<"b">>, <<",">>, <<" ">>, <<" ", "o", "r", " ">>}

ChooseTexts ==
    {Concat(ps) : ps \in UNION {[1 .. n -> ChoosePieces] : n \in 0 .. MaxPieces}}

CoinTexts ==
    {<<>>, <<"x">>, <<"-">>, <<" ", "2">>}
    \cup {sg \o n : sg \in SignTexts,
                    n \in {<<"0">>, <<"1">>, <<"2">>, <<"5">>, <<"9", "9">>,
                           <<"1", "0", "0">>, <<"1", "0", "1">>,
                           <<"9", "9", "9", "9">>}}

\* -------------------------------------------------------------------- dice

Init ==
    /\ pc = "idle"
    /\ rng \in 1 .. (RngMod - 1)
    /\ cmd = ""
    /\ arg = <<>>
    /\ text = <<>>
    /\ desc = <<>>
    /\ groups = <<>>
    /\ total = 0
    /\ rolls = <<>>
    /\ ret = <<>>
    /\ exc = ""
    /\ notices = <<>>
    /\ acts = <<>>
    /\ terms = <<>>

\* notice(INVALID_ROLL.format(text)); notice(INVALID_NUMBER.format(text))
Notice(fmt, t) == [fmt |-> fmt, text |-> t]

\* dice, from the groups of its match to the start of the loop.
DiceBody(m) ==
    /\ text' = m.text
    /\ desc' = m.desc
    /\ IF ~IsSubstring(<<"d">>, m.text)
       THEN /\ pc' = "done"
            /\ notices' = <<>>
            /\ groups' = <<>>
       ELSE IF ~valid_diceroll(StripWs(m.text)).ok
       THEN /\ pc' = "done"
            /\ notices' = <<Notice("INVALID_ROLL", m.text)>>
            /\ groups' = <<>>
       ELSE /\ pc' = "loop"
            /\ notices' = <<>>
            /\ groups' = sign_findall(StripWs(m.text))

\* dice(text, notice), text a str: the command as the user types it.
Dice(t) ==
    /\ pc = "idle"
    /\ cmd' = "dice"
    /\ arg' = t
    /\ LET match == valid_diceroll(StripWs(t))
       IN  IF match.ok
           THEN DiceBody(match)
           ELSE /\ pc' = "done"
                /\ notices' = <<Notice("INVALID_ROLL", t)>>
                /\ text' = t
                /\ UNCHANGED <<desc, groups>>
    /\ UNCHANGED <<rng, total, rolls, ret, exc, acts, terms>>

\* dice(text, notice), text a match object (hasattr(text, "groups")): the
\* match of valid_diceroll, the module's pattern with two groups, on the
\* text as typed.
DiceMatch(t) ==
    /\ pc = "idle"
    /\ valid_diceroll(t).ok
    /\ cmd' = "dice_match"
    /\ arg' = t
    /\ DiceBody(valid_diceroll(t))
    /\ UNCHANGED <<rng, total, rolls, ret, exc, acts, terms>>

\* term_count with the default of a digit-less count dropped: the count is
\* what its digits say, none counting as 0.
term_count_default0(count) ==
    IF IsSubstring(count, <<" ", "+", "-">>) THEN 0 ELSE ParseInt(count)

\* count = int(count) if count not in " +-" else 1
term_count(count) ==
    IF IsSubstring(count, <<" ", "+", "-">>) THEN 1 ELSE ParseInt(count)

\* The display token of one fudge outcome.
fudge_token(fudge) ==
    IF fudge = 1 THEN FUDGE_PLUS
    ELSE IF fudge = -1 THEN FUDGE_MINUS
    ELSE FUDGE_ZERO

\* One evaluated term: its text, its kind ("fudge", "const" or "die"), its
\* count, its side text, the roll_cnt n_rolls was called with (0 for a
\* constant, which makes no call), what n_rolls did, and the tokens appended
\* to rolls.
Term(roll, kind, count, side, called, res, toks) ==
    [roll |-> roll, kind |-> kind, count |-> count, side |-> side,
     called |-> called, exc |-> res.exc, vals |-> res.vals, toks |-> toks]

\* One iteration of `for roll in groups`.
DiceTerm ==
    /\ pc = "loop"
    /\ groups # <<>>
    /\ LET roll == Head(groups)
           g == split_groups(roll)
           count == term_count(g.count)
       IN  IF Upper(g.side) = <<"F">>
           THEN LET res == n_rolls(count, FudgeSides, rng)
                    toks == [i \in 1 .. Len(res.vals) |-> fudge_token(res.vals[i])]
                IN  /\ rng' = res.rng
                    /\ terms' = Append(terms, Term(roll, "fudge", count, g.side, count, res, toks))
                    /\ IF res.exc # ""
                       THEN /\ exc' = res.exc
                            /\ pc' = "done"
                            /\ UNCHANGED <<rolls, total, ret>>
                       ELSE /\ rolls' = rolls \o toks
                            /\ total' = total + Sum(res.vals)
                            /\ pc' = "loop"
                            /\ UNCHANGED <<exc, ret>>
           ELSE IF g.side = <<>>
           THEN /\ total' = total + count
                /\ terms' = Append(terms, Term(roll, "const", count, g.side, 0,
                                            Rolled(<<>>, rng), <<>>))
                /\ pc' = "loop"
                /\ UNCHANGED <<rng, rolls, exc, ret>>
           ELSE LET side == ParseInt(g.side)
                    called == IF count > 0 THEN count ELSE 0 - count
                    res == n_rolls(called, side, rng)
                    toks == [i \in 1 .. Len(res.vals) |->
                                IF count > 0 THEN IntToStr(res.vals[i])
                                ELSE IntToStr(0 - res.vals[i])]
                IN  /\ rng' = res.rng
                    /\ terms' = Append(terms, Term(roll, "die", count, g.side, called, res, toks))
                    /\ IF res.exc = "OverflowError"
                       THEN /\ ret' = <<OVERFLOW_JOKE>>
                            /\ pc' = "done"
                            /\ UNCHANGED <<rolls, total, exc>>
                       ELSE IF res.exc # ""
                       THEN /\ exc' = res.exc
                            /\ pc' = "done"
                            /\ UNCHANGED <<rolls, total, ret>>
                       ELSE /\ rolls' = rolls \o toks
                            /\ total' = IF count > 0 THEN total + Sum(res.vals)
                                        ELSE total - Sum(res.vals)
                            /\ pc' = "loop"
                            /\ UNCHANGED <<exc, ret>>
    /\ groups' = Tail(groups)
    /\ UNCHANGED <<cmd, arg, text, desc, notices, acts>>

\* "{} ({})".format(total, ", ".join(rolls)), after "{}: " of the label
format_result(d, tot, rs) ==
    (IF d # <<>> THEN Strip(d) \o <<":", " ">> ELSE <<>>)
    \o IntToStr(tot) \o <<" ", "(">> \o Join(rs, <<",", " ">>) \o <<")">>

\* The end of the loop: the formatted result is returned.
DiceReturn ==
    /\ pc = "loop"
    /\ groups = <<>>
    /\ ret' = <<format_result(desc, total, rolls)>>
    /\ pc' = "done"
    /\ UNCHANGED <<rng, cmd, arg, text, desc, groups, total, rolls, exc,
                   notices, acts, terms>>

\* ------------------------------------------------------------------ choose

\* re.findall(r'([^,]+)', s): the maximal runs of characters other than ",".
RECURSIVE CommaRuns(_, _)
CommaRuns(s, cur) ==
    IF s = <<>> THEN (IF cur = <<>> THEN <<>> ELSE <<cur>>)
    ELSE IF Head(s) = ","
    THEN (IF cur = <<>> THEN <<>> ELSE <<cur>>) \o CommaRuns(Tail(s), <<>>)
    ELSE CommaRuns(Tail(s), Append(cur, Head(s)))

\* s.split(sep)
RECURSIVE SplitOn(_, _, _)
SplitOn(s, sep, cur) ==
    IF s = <<>> THEN <<cur>>
    ELSE IF Len(s) >= Len(sep) /\ Take(s, Len(sep)) = sep
    THEN <<cur>> \o SplitOn(Drop(s, Len(sep)), sep, <<>>)
    ELSE SplitOn(Tail(s), sep, Append(cur, Head(s)))

\* The choices choose picks from: the comma-separated ones, a single one
\* split again on " or ".
split_choices(t) ==
    LET choices == CommaRuns(Strip(t), <<>>)
    IN  IF Len(choices) = 1
        THEN SplitOn(choices[1], <<" ", "o", "r", " ">>, <<>>)
        ELSE choices

\* choose(text, event)
Choose(t) ==
    /\ pc = "idle"
    /\ cmd' = "choose"
    /\ arg' = t
    /\ pc' = "done"
    /\ LET first == CommaRuns(Strip(t), <<>>)
           choices == split_choices(t)
       IN  IF Len(first) = 1 /\ Len(choices) = 1
           THEN /\ notices' = <<Notice("notice_doc", <<>>)>>
                /\ UNCHANGED <<ret, exc, rng>>
           ELSE IF choices = <<>>
           THEN /\ exc' = "IndexError"
                /\ UNCHANGED <<ret, notices, rng>>
           ELSE /\ ret' = <<Strip(choice(choices, rng))>>
                /\ rng' = RandNext(rng)
                /\ UNCHANGED <<exc, notices>>
    /\ UNCHANGED <<text, desc, groups, total, rolls, acts, terms>>

\* -------------------------------------------------------------------- coin

\* sum(random.randint(0, 1) for _ in range(amount))
coin_heads_simulated(amount, r) ==
    LET res == RandInts(amount, 0, 1, r)
    IN  [heads |-> Sum(res.vals), rng |-> res.rng]

\* round(amount * random.uniform(0.45, 0.55)), for an amount in float range
coin_heads_approximated(amount, r) ==
    [heads |-> RoundDiv(amount * UniformPct(r), 100), rng |-> RandNext(r)]

Action(fmt, args) == [fmt |-> fmt, args |-> args]

\* coin(text, notice, action)
Coin(t) ==
    /\ pc = "idle"
    /\ cmd' = "coin"
    /\ arg' = t
    /\ pc' = "done"
    /\ IF t # <<>> /\ ~IsIntLiteral(t)
       THEN /\ notices' = <<Notice("INVALID_NUMBER", t)>>
            /\ UNCHANGED <<acts, exc, rng>>
       ELSE LET amount == IF t # <<>> THEN ParseInt(t) ELSE 1
            IN  IF amount = 0
                THEN /\ acts' = <<Action("NO_COIN", <<>>)>>
                     /\ UNCHANGED <<notices, exc, rng>>
                ELSE IF amount = 1
                THEN /\ acts' = <<Action("SINGLE_COIN",
                                         <<choice(<<"heads", "tails">>, rng)>>)>>
                     /\ rng' = RandNext(rng)
                     /\ UNCHANGED <<notices, exc>>
                ELSE IF amount >= ROLL_LIMIT /\ amount > FloatMax
                THEN /\ exc' = "OverflowError"
                     /\ UNCHANGED <<notices, acts, rng>>
                ELSE LET h == IF amount < ROLL_LIMIT
                              THEN coin_heads_simulated(amount, rng)
                              ELSE coin_heads_approximated(amount, rng)
                     IN  /\ acts' = <<Action("MANY_COINS",
                                             <<amount, h.heads, amount - h.heads>>)>>
                         /\ rng' = h.rng
                         /\ UNCHANGED <<notices, exc>>
    /\ UNCHANGED <<text, desc, groups, total, rolls, ret, terms>>

\* ------------------------------------------------------------ specification

\* The command has ended; the bot waits for the next one.  Only the random
\* source keeps its state from one command to the next.
Finish ==
    /\ pc = "done"
    /\ pc' = "idle"
    /\ cmd' = ""
    /\ arg' = <<>>
    /\ text' = <<>>
    /\ desc' = <<>>
    /\ groups' = <<>>
    /\ total' = 0
    /\ rolls' = <<>>
    /\ ret' = <<>>
    /\ exc' = ""
    /\ notices' = <<>>
    /\ acts' = <<>>
    /\ terms' = <<>>
    /\ UNCHANGED rng

Next ==
    \/ \E t \in DiceTexts : Dice(t)
    \/ \E t \in MatchTexts : DiceMatch(t)
    \/ DiceTerm
    \/ DiceReturn
    \/ \E t \in ChooseTexts : Choose(t)
    \/ \E t \in CoinTexts : Coin(t)
    \/ Finish

Spec == Init /\ [][Next]_vars

\* -------------------------------------------------------------- properties

\* What a term's text says, read off the text itself.
WrittenNeg(roll) == roll # <<>> /\ Head(roll) = "-"

Unsigned(roll) == IF roll # <<>> /\ IsSign(Head(roll)) THEN Tail(roll) ELSE roll

WrittenDigits(roll) == Take(Unsigned(roll), DigitRun(Unsigned(roll)))

HasDie(s) == \E i \in 1 .. Len(s) : IsD(s[i])

\* The multiplicity as written: 1 when no digits are written.
WrittenMult(roll) ==
    IF WrittenDigits(roll) = <<>> THEN 1 ELSE DigitsVal(WrittenDigits(roll), 0)

WrittenFudge(roll) == roll # <<>> /\ IsF(roll[Len(roll)])

\* The sides of an ordinary die as written: the digits after the die letter.
WrittenSides(roll) ==
    DigitsVal(Drop(Unsigned(roll), Len(WrittenDigits(roll)) + 1), 0)

Signed(roll, n) == IF WrittenNeg(roll) THEN 0 - n ELSE n

IsDiceCmd == cmd \in {"dice", "dice_match"}

\* dice has returned a formatted result.
DiceResult ==
    /\ pc = "done"
    /\ IsDiceCmd
    /\ exc = ""
    /\ ret # <<>>
    /\ ret # <<OVERFLOW_JOKE>>

\* The value a display token shows.
TokenValue(tok) ==
    IF tok = FUDGE_PLUS THEN 1
    ELSE IF tok = FUDGE_MINUS THEN -1
    ELSE ParseInt(tok)

\* What a term contributes to the total according to its text.
Contribution(t) ==
    IF HasDie(t.roll) THEN Signed(t.roll, Sum(t.vals))
    ELSE Signed(t.roll, WrittenMult(t.roll))

\* C1: the total dice returns is the sum of the signed bare constants plus,
\* for each dice term, the sum of its outcomes, added when the term is
\* written with "+" or no sign and subtracted when it is written with "-",
\* a sign-only multiplicity counting as 1 with that sign.
C1_TotalIsSignedSum ==
    DiceResult =>
        total = Sum([i \in 1 .. Len(terms) |-> Contribution(terms[i])])

\* C2: a dice term written with a multiplicity of absolute value n,
\* 1 <= n < 100, of either sign, ordinary with sides >= 1 or fudge, gets
\* exactly n display tokens, and each outcome lies in the term's range.
C2_TokensAndRange ==
    \A i \in 1 .. Len(terms) :
        LET t == terms[i]
            n == WrittenMult(t.roll)
        IN  (/\ HasDie(t.roll)
             /\ 1 <= n /\ n < ROLL_LIMIT
             /\ (WrittenFudge(t.roll) \/ WrittenSides(t.roll) >= 1))
            => /\ Len(t.toks) = n
               /\ Len(t.vals) = n
               /\ \A k \in 1 .. Len(t.vals) :
                    IF WrittenFudge(t.roll) THEN t.vals[k] \in {-1, 0, 1}
                    ELSE t.vals[k] \in 1 .. WrittenSides(t.roll)

\* C3: the mode switch is at exactly 100: a call of n_rolls with
\* roll_cnt >= 100 gives a one-element list and one display token (the
\* float overflow that dice answers with its joke string aside), and a call
\* with 0 <= roll_cnt <= 99 gives roll_cnt elements.
C3_ModeSwitchAt100 ==
    \A i \in 1 .. Len(terms) :
        LET t == terms[i]
        IN  t.kind # "const" =>
              /\ (t.called >= 100 /\ t.exc # "OverflowError")
                    => (t.exc = "" /\ Len(t.vals) = 1 /\ Len(t.toks) = 1)
              /\ (0 <= t.called /\ t.called <= 99)
                    => (t.exc = "" /\ Len(t.vals) = t.called)

\* The text is a dice specification with a dice term, one space and a label.
LabelledRoll(t) ==
    /\ valid_diceroll(t).ok
    /\ valid_diceroll(t).desc # <<>>
    /\ HasDie(valid_diceroll(t).text)

\* C4: dice called with the raw text of a valid specification with a dice
\* term, one space and a label accepts it (no notice) and returns
\* "<label>: <total> (<tokens>)", the label trimmed.
C4_LabelAccepted ==
    (pc = "done" /\ cmd = "dice" /\ LabelledRoll(arg))
        => /\ notices = <<>>
           /\ ret = <<Strip(valid_diceroll(arg).desc) \o <<":", " ">>
                      \o IntToStr(total) \o <<" ", "(">>
                      \o Join(rolls, <<",", " ">>) \o <<")">> >>

\* C5: the notation is case-insensitive in the die letter: a valid
\* expression with a dice term, its die letter written d or D, never ends
\* in a silent return without output.
C5_CaseInsensitive ==
    (/\ pc = "done"
     /\ IsDiceCmd
     /\ valid_diceroll(StripWs(text)).ok
     /\ HasDie(text))
        => ~(ret = <<>> /\ notices = <<>> /\ exc = "")

\* C6: when the approximation overflows the float range in a term, ordinary
\* or fudge, dice returns the joke string and no exception leaves it.
C6_OverflowIsCaught ==
    (/\ pc = "done"
     /\ IsDiceCmd
     /\ terms # <<>>
     /\ terms[Len(terms)].exc = "OverflowError")
        => (ret = <<OVERFLOW_JOKE>> /\ exc = "")

\* C7: choose either signals that no choices were given (notice_doc, no
\* return value), exactly when the splitting leaves a single choice, or
\* returns one of the choices, trimmed; nothing else happens on any text.
C7_ChooseOutcomes ==
    (pc = "done" /\ cmd = "choose")
        => /\ exc = ""
           /\ IF Len(split_choices(arg)) = 1
              THEN notices = <<Notice("notice_doc", <<>>)>> /\ ret = <<>>
              ELSE /\ notices = <<>>
                   /\ ret # <<>>
                   /\ \E i \in 1 .. Len(split_choices(arg)) :
                        ret[1] = Strip(split_choices(arg)[i])

OmittedMult(roll) == HasDie(roll) /\ WrittenDigits(roll) = <<>>

ZeroMult(roll) ==
    HasDie(roll) /\ WrittenDigits(roll) # <<>> /\ WrittenMult(roll) = 0

\* C8 as stated: every dice term has a non-zero multiplicity, a multiplicity
\* written as 0 or omitted being evaluated as 1: one die, one token.
C8_CountNeverZero ==
    \A i \in 1 .. Len(terms) :
        LET t == terms[i]
        IN  HasDie(t.roll) =>
              /\ t.count # 0
              /\ (OmittedMult(t.roll) \/ ZeroMult(t.roll))
                    => (t.count = 1 /\ Len(t.vals) = 1 /\ Len(t.toks) = 1)

\* C8, amended: an omitted multiplicity is evaluated as 1 (one die, one
\* token); a multiplicity written as 0 is evaluated as 0 (no die, no token);
\* no other dice term has multiplicity 0.
C8_OmittedIsOneZeroIsZero ==
    \A i \in 1 .. Len(terms) :
        LET t == terms[i]
        IN  HasDie(t.roll) =>
              /\ OmittedMult(t.roll)
                    => /\ t.count = 1 /\ t.called = 1 /\ t.exc = ""
                       /\ Len(t.vals) = 1 /\ Len(t.toks) = 1
              /\ ZeroMult(t.roll)
                    => /\ t.count = 0 /\ t.called = 0 /\ t.exc = ""
                       /\ t.vals = <<>> /\ t.toks = <<>>
              /\ t.count = 0 => ZeroMult(t.roll)

\* An expression with a term of omitted multiplicity and a term of
\* multiplicity 0 has been evaluated to its result.
C8_Witness ==
    /\ DiceResult
    /\ \E i \in 1 .. Len(terms) : OmittedMult(terms[i].roll)
    /\ \E i \in 1 .. Len(terms) : ZeroMult(terms[i].roll)

\* C9: the heads and tails coin reports for an amount other than 0 and 1,
\* negative amounts included, split the amount: they add up to it and
\* neither is negative.
C9_HeadsTailsSplit ==
    (pc = "done" /\ cmd = "coin" /\ acts # <<>> /\ acts[1].fmt = "MANY_COINS")
        => LET amount == acts[1].args[1]
               heads == acts[1].args[2]
               tails == acts[1].args[3]
           IN  heads + tails = amount /\ heads >= 0 /\ tails >= 0

\* C10: the breakdown accounts for the total: the total is the sum of the
\* bare constants plus the sum of the values the display tokens show.
C10_BreakdownAccountsForTotal ==
    DiceResult =>
        total = Sum([i \in 1 .. Len(terms) |->
                        IF HasDie(terms[i].roll) THEN 0
                        ELSE Signed(terms[i].roll, WrittenMult(terms[i].roll))])
                + Sum([i \in 1 .. Len(rolls) |-> TokenValue(rolls[i])])

====
